---- MODULE Spec2Model ----
(***************************************************************************)
(* Model of the MessageControlPlane of src/typescript/mcp/mcp.ts.          *)
(*                                                                         *)
(* The control plane keeps a handler registry and two chains (validators   *)
(* and interceptors).  processRequest is an async function: it runs        *)
(* synchronously up to an `await`, is suspended while the awaited plugin   *)
(* (validator, handler, interceptor) is pending, and resumes when the      *)
(* plugin settles.  Each action below is one such synchronous run.         *)
(* Several dispatches may be in flight at once and register/add calls may  *)
(* run between any two of their steps.                                     *)
(***************************************************************************)
EXTENDS Integers, Sequences, FiniteSets, TLC

(* ---------------------------------------------------------------------- *)
(* Bounds of the model                                                     *)
(* ---------------------------------------------------------------------- *)
\* longest validator chain explored
MaxValidators == 2
\* longest interceptor chain explored
MaxInterceptors == 2
\* number of registerMessageHandler calls explored
MaxRegister == 2

\* the processRequest / sendMessage calls followed through the pipeline
Dispatches == {"d1"}

(* ---------------------------------------------------------------------- *)
(* JavaScript values that the code tests for truthiness                    *)
(* ---------------------------------------------------------------------- *)
\* the value `undefined` (a missing property, a missing map entry)
Undefined == [t |-> "undefined", v |-> ""]

\* a string value
Str(s) == [t |-> "string", v |-> s]

\* JavaScript truthiness of undefined and of strings: "" is falsy
Truthy(x) == x.t = "string" /\ x.v # ""

\* the operator a || b
JsOr(a, b) == IF Truthy(a) THEN a ELSE b

(* ---------------------------------------------------------------------- *)
(* Plugins and the values they produce                                     *)
(* ---------------------------------------------------------------------- *)
\* identities of the validator functions a caller may add; what a validator
\* does is left open at every invocation, so one identity stands for any
\* function and a chain entry is told apart by its position
ValidatorIds == {"v1"}

\* identities of the interceptor functions a caller may add (as above)
InterceptorIds == {"i1"}

\* identities of the handler functions a caller may register
HandlerIds == {"h1", "h2"}

\* result of Map.get for a key without entry
NoHandler == "none"

\* the strings used as message types and as registry keys
TypeStrings == {"", "default", "a"}

\* message texts a failure value may carry
FailureTexts == {"", "E1"}

\* the values a plugin may throw (`catch (error: any)`): null/undefined,
\* a value without a message property, a value whose message is a string
Failures ==
  {[nullish |-> TRUE, message |-> Undefined],
   [nullish |-> FALSE, message |-> Undefined]}
  \cup {[nullish |-> FALSE, message |-> Str(s)] : s \in FailureTexts}

\* placeholder for "no failure recorded"
NoFailure == [nullish |-> FALSE, message |-> Str("-")]

\* ids of inbound messages
MessageIds == {"m1", "m2"}

\* conversation of the inbound messages
ConversationIds == {"c1"}

\* a metadata map: the entries the code reads or writes (type,
\* originalMessageId, status); "" stands for an entry that is not set
Metadata(type, orig, status) ==
  [present |-> TRUE, type |-> type, originalMessageId |-> orig,
   status |-> status]

\* a message without metadata map
NoMetadata ==
  [present |-> FALSE, type |-> Undefined, originalMessageId |-> "",
   status |-> ""]

\* the metadata of an inbound message: no map, a map without type entry,
\* or a map whose type entry is a string
InboundMetadatas ==
  {NoMetadata, Metadata(Undefined, "", "")}
  \cup {Metadata(Str(s), "", "") : s \in TypeStrings}

\* an MCPMessage (timestamp and content are not modelled)
Message(id, source, conv, metadata) ==
  [id |-> id, source |-> source, conversationId |-> conv,
   metadata |-> metadata]

\* inbound messages a caller may submit
InboundMessages ==
  {Message(i, "user", c, m) :
     i \in MessageIds, c \in ConversationIds, m \in InboundMetadatas}

\* placeholder for "no message" (the null a handler may return)
NoMessage == Message("-", "-", "-", NoMetadata)

\* the message handler h returns for inbound message m when it replies
HandlerReply(h, m) ==
  Message("reply-" \o m.id, h, m.conversationId, Metadata(Undefined, "", ""))

(* ---------------------------------------------------------------------- *)
(* Responses                                                               *)
(* ---------------------------------------------------------------------- *)
\* an MCPResponse; hasError tells whether the optional error field is set,
\* trail lists the interceptors that wrote to the response
Response(orig, msg, success, hasError, code, text) ==
  [originalMessageId |-> orig, responseMessage |-> msg, success |-> success,
   hasError |-> hasError, code |-> code, message |-> text, trail |-> <<>>]

\* placeholder for "no response yet"
NoResponse == Response("-", NoMessage, FALSE, FALSE, "", "")

\* an error response that keeps the success flag set
buildErrorResponse_Flagged(originalMessageId, errorCode, errorMessage) ==
  Response(originalMessageId,
           Message("error-*", "mcp_error_handler",
                   "conv-for-" \o originalMessageId,
                   Metadata(Undefined, originalMessageId, "")),
           TRUE, TRUE, errorCode, errorMessage)

\* buildErrorResponse(originalMessageId, errorCode, errorMessage)
buildErrorResponse(originalMessageId, errorCode, errorMessage) ==
  Response(originalMessageId,
           Message("error-*", "mcp_error_handler",
                   "conv-for-" \o originalMessageId,
                   Metadata(Undefined, originalMessageId, "")),
           FALSE, TRUE, errorCode, errorMessage)

\* a success response that echoes the inbound message
successResponse_Echo(req, processedMessage) ==
  Response(req.id, req, TRUE, FALSE, "", "")

\* a success response that names the id of the reply
successResponse_ReplyId(req, processedMessage) ==
  Response(processedMessage.id, processedMessage, TRUE, FALSE, "", "")

\* the response wrapping the message a handler returned
successResponse(req, processedMessage) ==
  Response(req.id, processedMessage, TRUE, FALSE, "", "")

\* a no-reply notice built like an error message
noReplyResponse_Unlabelled(req) ==
  Response(req.id,
           Message("system-response-*", "mcp_error_handler", req.conversationId,
                   Metadata(Undefined, req.id, "")),
           TRUE, FALSE, "", "")

\* the response built when the handler returned null
noReplyResponse(req) ==
  Response(req.id,
           Message("system-response-*", "mcp_system", req.conversationId,
                   Metadata(Undefined, req.id, "PROCESSED_NO_REPLY")),
           TRUE, FALSE, "", "")

\* what an interceptor's write to the response leaves behind
Mark(resp, i) == [resp EXCEPT !.trail = Append(@, i)]

\* what an interceptor may do to the response it is given: nothing, write
\* its mark to it, or set its success flag to false
Edits == {"none", "mark", "downgrade"}

\* the response an interceptor i leaves after edit e
Edited(resp, i, e) ==
  CASE e = "none" -> resp
    [] e = "mark" -> Mark(resp, i)
    [] e = "downgrade" -> [resp EXCEPT !.success = FALSE]

(* ---------------------------------------------------------------------- *)
(* State                                                                   *)
(* ---------------------------------------------------------------------- *)
VARIABLES
  messageHandlers,       \* registry: key -> handler id or NoHandler
  requestValidators,     \* the validator chain
  responseInterceptors,  \* the interceptor chain
  registered,            \* number of registerMessageHandler calls made
  proc                   \* per dispatch: the frame of its processRequest call

vars == <<messageHandlers, requestValidators, responseInterceptors,
          registered, proc>>

\* the frame of a processRequest call that has not been made yet
IdleFrame ==
  [pc |-> "idle", entry |-> "-", outcome |-> "pending",
   request |-> NoMessage,
   vIdx |-> 0, iIdx |-> 0,
   messageType |-> "-", handler |-> "-",
   processedMessage |-> NoMessage, handlerResult |-> "-",
   mcpResponse |-> NoResponse, built |-> NoResponse,
   validatorFailure |-> NoFailure, validatorFailed |-> FALSE,
   handlerFailure |-> NoFailure,
   interceptorFailed |-> FALSE,
   given |-> <<>>, returned |-> <<>>,
   calls |-> <<>>, settled |-> 0]

\* a plugin invocation as recorded in the frame's call log
Call(kind, id, pos) == [kind |-> kind, id |-> id, pos |-> pos]

\* constructor
Init ==
  /\ messageHandlers = [k \in TypeStrings |-> NoHandler]
  /\ requestValidators = <<>>
  /\ responseInterceptors = <<>>
  /\ registered = 0
  /\ proc = [d \in Dispatches |-> IdleFrame]

(* ---------------------------------------------------------------------- *)
(* Registration                                                            *)
(* ---------------------------------------------------------------------- *)
\* a registration that keeps the handler a key already has
registerMessageHandler_KeepFirst(messageType, h) ==
  /\ registered < MaxRegister
  /\ messageHandlers' =
       IF messageHandlers[messageType] = NoHandler
         THEN [messageHandlers EXCEPT ![messageType] = h]
         ELSE messageHandlers
  /\ registered' = registered + 1
  /\ UNCHANGED <<requestValidators, responseInterceptors, proc>>

\* registerMessageHandler(messageType, handler)
registerMessageHandler(messageType, h) ==
  /\ registered < MaxRegister
  /\ messageHandlers' = [messageHandlers EXCEPT ![messageType] = h]
  /\ registered' = registered + 1
  /\ UNCHANGED <<requestValidators, responseInterceptors, proc>>

\* an add that puts the new validator at the head of the chain
addRequestValidator_Prepend(v) ==
  /\ Len(requestValidators) < MaxValidators
  /\ requestValidators' = <<v>> \o requestValidators
  /\ UNCHANGED <<messageHandlers, responseInterceptors, registered, proc>>

\* addRequestValidator(validator)
addRequestValidator(v) ==
  /\ Len(requestValidators) < MaxValidators
  /\ requestValidators' = Append(requestValidators, v)
  /\ UNCHANGED <<messageHandlers, responseInterceptors, registered, proc>>

\* an add that grows the chain by a slot it has not filled yet
addResponseInterceptor_Torn(i) ==
  /\ Len(responseInterceptors) < MaxInterceptors
  /\ responseInterceptors' = Append(responseInterceptors, "unset")
  /\ UNCHANGED <<messageHandlers, requestValidators, registered, proc>>

\* addResponseInterceptor(interceptor)
addResponseInterceptor(i) ==
  /\ Len(responseInterceptors) < MaxInterceptors
  /\ responseInterceptors' = Append(responseInterceptors, i)
  /\ UNCHANGED <<messageHandlers, requestValidators, registered, proc>>

(* ---------------------------------------------------------------------- *)
(* processRequest, one synchronous run at a time                           *)
(* ---------------------------------------------------------------------- *)
\* the `await` of frame f resumes: the invocation it waited for has settled
Awaited(f) == [f EXCEPT !.settled = @ + 1]

\* `return resp`: the promise of processRequest is fulfilled
Return(f, resp) ==
  [f EXCEPT !.pc = "done", !.outcome = "returned", !.mcpResponse = resp]

\* a fault leaves processRequest: its promise is rejected
Propagate(f) == [f EXCEPT !.pc = "done", !.outcome = "thrown"]

\* a key resolution that falls back only when the type is undefined (??)
MessageTypeOf_Nullish(m) ==
  IF m.metadata.present /\ m.metadata.type.t = "string"
    THEN m.metadata.type.v
    ELSE "default"

\* the message-type key: request.message.metadata?.type || 'default'
MessageTypeOf(m) ==
  JsOr(IF m.metadata.present THEN m.metadata.type ELSE Undefined,
       Str("default")).v

\* step 4: the for-of loop over responseInterceptors, resumed with iIdx
\* entries consumed; the array is read afresh at every iteration
runInterceptors(f) ==
  IF f.iIdx < Len(responseInterceptors)
    THEN [f EXCEPT !.pc = "interceptor", !.iIdx = @ + 1,
                   !.given = Append(@, f.mcpResponse),
                   !.calls = Append(@, Call("interceptor",
                                responseInterceptors[f.iIdx + 1], f.iIdx + 1))]
    ELSE Return(f, f.mcpResponse)

\* a lookup that falls back to the handler registered under 'default'
route_TryDefault(f) ==
  LET messageType == MessageTypeOf(f.request)
      h == IF messageHandlers[messageType] = NoHandler
             THEN messageHandlers["default"]
             ELSE messageHandlers[messageType]
  IN IF h = NoHandler
       THEN Return([f EXCEPT !.messageType = messageType, !.handler = NoHandler],
                   buildErrorResponse(f.request.id, "HANDLER_NOT_FOUND",
                     "No se encontro un manejador para el tipo de mensaje '"
                       \o messageType \o "' (ID: " \o f.request.id \o ")."))
       ELSE [f EXCEPT !.pc = "handler", !.messageType = messageType,
                      !.handler = h,
                      !.calls = Append(@, Call("handler", h, 0))]

\* step 2: key resolution, lookup, and the call of the handler
route(f) ==
  LET messageType == MessageTypeOf(f.request)
      h == messageHandlers[messageType]
  IN IF h = NoHandler
       THEN Return([f EXCEPT !.messageType = messageType, !.handler = NoHandler],
                   buildErrorResponse(f.request.id, "HANDLER_NOT_FOUND",
                     "No se encontro un manejador para el tipo de mensaje '"
                       \o messageType \o "' (ID: " \o f.request.id \o ")."))
       ELSE [f EXCEPT !.pc = "handler", !.messageType = messageType,
                      !.handler = h,
                      !.calls = Append(@, Call("handler", h, 0))]

\* a validator loop that walks the chain from its end
runValidators_Reversed(f) ==
  IF f.vIdx < Len(requestValidators)
    THEN [f EXCEPT !.pc = "validator", !.vIdx = @ + 1,
                   !.calls = Append(@, Call("validator",
                                requestValidators[Len(requestValidators) - f.vIdx],
                                Len(requestValidators) - f.vIdx))]
    ELSE route(f)

\* a validator stage that starts every remaining validator at once and
\* awaits them together
runValidators_FanOut(f) ==
  IF f.vIdx < Len(requestValidators)
    THEN [f EXCEPT !.pc = "validator", !.vIdx = Len(requestValidators),
                   !.calls = @ \o
                      [n \in 1..(Len(requestValidators) - f.vIdx) |->
                         Call("validator", requestValidators[f.vIdx + n],
                              f.vIdx + n)]]
    ELSE route(f)

\* a validator stage that ends after the first entry of the chain
runValidators_FirstOnly(f) ==
  IF f.vIdx < Len(requestValidators) /\ f.vIdx < 1
    THEN [f EXCEPT !.pc = "validator", !.vIdx = @ + 1,
                   !.calls = Append(@, Call("validator",
                                requestValidators[f.vIdx + 1], f.vIdx + 1))]
    ELSE route(f)

\* step 1: the for-of loop over requestValidators, resumed with vIdx
\* entries consumed; the array is read afresh at every iteration
runValidators(f) ==
  IF f.vIdx < Len(requestValidators)
    THEN [f EXCEPT !.pc = "validator", !.vIdx = @ + 1,
                   !.calls = Append(@, Call("validator",
                                requestValidators[f.vIdx + 1], f.vIdx + 1))]
    ELSE route(f)

\* catch blocks that always report their fixed text
catchError_FixedText(f, errorCode, error, fallback) ==
  IF error.nullish
    THEN Propagate(f)
    ELSE Return(f, buildErrorResponse(f.request.id, errorCode, fallback))

\* a validation catch block that logs the error and falls through to step 2
catchError_FallThrough(f, errorCode, error, fallback) ==
  IF errorCode = "VALIDATION_ERROR"
    THEN route(f)
    ELSE IF error.nullish
      THEN Propagate(f)
      ELSE Return(f, buildErrorResponse(f.request.id, errorCode,
                                        JsOr(error.message, Str(fallback)).v))

\* catch blocks that send their error response through the interceptors
catchError_Intercepted(f, errorCode, error, fallback) ==
  IF error.nullish
    THEN Propagate(f)
    ELSE runInterceptors([f EXCEPT !.mcpResponse =
           buildErrorResponse(f.request.id, errorCode,
                              JsOr(error.message, Str(fallback)).v)])

\* the catch blocks of steps 1 and 2: error.message is read (a TypeError
\* when error is null or undefined) and replaced by the fallback if falsy
\* (texts are written without their accents)
catchError(f, errorCode, error, fallback) ==
  IF error.nullish
    THEN Propagate(f)
    ELSE Return(f, buildErrorResponse(f.request.id, errorCode,
                                      JsOr(error.message, Str(fallback)).v))

\* a processRequest that answers a message id it has seen before from the
\* earlier dispatch instead of running the pipeline again
processRequest_Dedup(d, message) ==
  /\ proc[d].pc = "idle"
  /\ proc' = [proc EXCEPT ![d] =
       IF \E o \in DOMAIN proc :
            o # d /\ proc[o].entry # "-" /\ proc[o].request.id = message.id
         THEN LET o == CHOOSE o \in DOMAIN proc :
                         o # d /\ proc[o].entry # "-"
                               /\ proc[o].request.id = message.id
              IN Return([IdleFrame EXCEPT !.entry = "processRequest",
                                          !.request = message],
                        proc[o].mcpResponse)
         ELSE runValidators([IdleFrame EXCEPT !.entry = "processRequest",
                                              !.request = message])]
  /\ UNCHANGED <<messageHandlers, requestValidators, responseInterceptors,
                 registered>>

\* processRequest(request) is called for dispatch d
processRequest(d, message) ==
  /\ proc[d].pc = "idle"
  /\ proc' = [proc EXCEPT ![d] =
       runValidators([IdleFrame EXCEPT !.entry = "processRequest",
                                       !.request = message])]
  /\ UNCHANGED <<messageHandlers, requestValidators, responseInterceptors,
                 registered>>

\* a sendMessage that hands the message straight to the handler lookup
sendMessage_Unvalidated(d, message) ==
  /\ proc[d].pc = "idle"
  /\ proc' = [proc EXCEPT ![d] =
       route([IdleFrame EXCEPT !.entry = "sendMessage",
                               !.request = message])]
  /\ UNCHANGED <<messageHandlers, requestValidators, responseInterceptors,
                 registered>>

\* sendMessage(message) is called for dispatch d
sendMessage(d, message) ==
  /\ proc[d].pc = "idle"
  /\ proc' = [proc EXCEPT ![d] =
       runValidators([IdleFrame EXCEPT !.entry = "sendMessage",
                                       !.request = message])]
  /\ UNCHANGED <<messageHandlers, requestValidators, responseInterceptors,
                 registered>>

\* the awaited validator of dispatch d completes normally
validatorResolves(d) ==
  /\ proc[d].pc = "validator"
  /\ proc' = [proc EXCEPT ![d] = runValidators(Awaited(proc[d]))]
  /\ UNCHANGED <<messageHandlers, requestValidators, responseInterceptors,
                 registered>>

\* a validator failure that is recorded while the loop goes on
validatorRejects_KeepGoing(d, error) ==
  /\ proc[d].pc = "validator"
  /\ proc' = [proc EXCEPT ![d] =
       runValidators([Awaited(proc[d]) EXCEPT !.validatorFailed = TRUE,
                                     !.validatorFailure = error])]
  /\ UNCHANGED <<messageHandlers, requestValidators, responseInterceptors,
                 registered>>

\* the awaited validator of dispatch d fails with `error`
validatorRejects(d, error) ==
  /\ proc[d].pc = "validator"
  /\ proc' = [proc EXCEPT ![d] =
       catchError([Awaited(proc[d]) EXCEPT !.validatorFailed = TRUE,
                                  !.validatorFailure = error],
                  "VALIDATION_ERROR", error,
                  "Error de validacion desconocido.")]
  /\ UNCHANGED <<messageHandlers, requestValidators, responseInterceptors,
                 registered>>

\* step 3: the response built from what the handler returned
buildResponse(f, processedMessage) ==
  IF processedMessage # NoMessage
    THEN successResponse(f.request, processedMessage)
    ELSE noReplyResponse(f.request)

\* a handler that is taken out of the registry once it has answered
handlerResolves_Unregister(d, reply) ==
  /\ proc[d].pc = "handler"
  /\ LET f == Awaited(proc[d])
         processedMessage ==
           IF reply THEN HandlerReply(f.handler, f.request) ELSE NoMessage
         mcpResponse == buildResponse(f, processedMessage)
     IN proc' = [proc EXCEPT ![d] =
          runInterceptors([f EXCEPT
            !.handlerResult = IF reply THEN "message" ELSE "null",
            !.processedMessage = processedMessage,
            !.mcpResponse = mcpResponse,
            !.built = mcpResponse])]
  /\ messageHandlers' = [messageHandlers EXCEPT ![proc[d].messageType] = NoHandler]
  /\ UNCHANGED <<requestValidators, responseInterceptors, registered>>

\* a dispatch that reads the registry again when its handler returns and
\* takes the reply as coming from the handler it finds then
handlerResolves_Relookup(d, reply) ==
  /\ proc[d].pc = "handler"
  /\ LET f == [Awaited(proc[d]) EXCEPT
                 !.handler = messageHandlers[proc[d].messageType]]
         processedMessage ==
           IF reply THEN HandlerReply(f.handler, f.request) ELSE NoMessage
         mcpResponse == buildResponse(f, processedMessage)
     IN proc' = [proc EXCEPT ![d] =
          runInterceptors([f EXCEPT
            !.handlerResult = IF reply THEN "message" ELSE "null",
            !.processedMessage = processedMessage,
            !.mcpResponse = mcpResponse,
            !.built = mcpResponse])]
  /\ UNCHANGED <<messageHandlers, requestValidators, responseInterceptors,
                 registered>>

\* the awaited handler of dispatch d returns a message (reply = TRUE) or
\* null (reply = FALSE)
handlerResolves(d, reply) ==
  /\ proc[d].pc = "handler"
  /\ LET f == Awaited(proc[d])
         processedMessage ==
           IF reply THEN HandlerReply(f.handler, f.request) ELSE NoMessage
         mcpResponse == buildResponse(f, processedMessage)
     IN proc' = [proc EXCEPT ![d] =
          runInterceptors([f EXCEPT
            !.handlerResult = IF reply THEN "message" ELSE "null",
            !.processedMessage = processedMessage,
            !.mcpResponse = mcpResponse,
            !.built = mcpResponse])]
  /\ UNCHANGED <<messageHandlers, requestValidators, responseInterceptors,
                 registered>>

\* a handler failure reported with the code of a routing failure
handlerRejects_AsNotFound(d, error) ==
  /\ proc[d].pc = "handler"
  /\ proc' = [proc EXCEPT ![d] =
       catchError([Awaited(proc[d]) EXCEPT !.handlerResult = "failed",
                                  !.handlerFailure = error],
                  "HANDLER_NOT_FOUND", error,
                  "Error desconocido en el manejador.")]
  /\ UNCHANGED <<messageHandlers, requestValidators, responseInterceptors,
                 registered>>

\* a handler failure whose error response is sent through the interceptors
handlerRejects_Intercepted(d, error) ==
  /\ proc[d].pc = "handler"
  /\ proc' = [proc EXCEPT ![d] =
       IF error.nullish
         THEN Propagate([Awaited(proc[d]) EXCEPT !.handlerResult = "failed",
                                        !.handlerFailure = error])
         ELSE runInterceptors([Awaited(proc[d]) EXCEPT
                !.handlerResult = "failed",
                !.handlerFailure = error,
                !.mcpResponse =
                   buildErrorResponse(proc[d].request.id, "HANDLER_ERROR",
                     JsOr(error.message,
                          Str("Error desconocido en el manejador.")).v)])]
  /\ UNCHANGED <<messageHandlers, requestValidators, responseInterceptors,
                 registered>>

\* a handler failure answered by invoking the handler a second time
handlerRejects_Retry(d, error) ==
  /\ proc[d].pc = "handler"
  /\ proc' = [proc EXCEPT ![d] =
       IF Len(SelectSeq(proc[d].calls, LAMBDA c : c.kind = "handler")) < 2
         THEN [Awaited(proc[d]) EXCEPT
                 !.calls = Append(@, Call("handler", proc[d].handler, 0))]
         ELSE catchError([Awaited(proc[d]) EXCEPT !.handlerResult = "failed",
                                                  !.handlerFailure = error],
                         "HANDLER_ERROR", error,
                         "Error desconocido en el manejador.")]
  /\ UNCHANGED <<messageHandlers, requestValidators, responseInterceptors,
                 registered>>

\* a handler failure that sends the request back through validation
handlerRejects_Revalidate(d, error) ==
  /\ proc[d].pc = "handler"
  /\ proc' = [proc EXCEPT ![d] =
       runValidators([Awaited(proc[d]) EXCEPT !.handlerResult = "failed",
                                              !.handlerFailure = error,
                                              !.vIdx = 0])]
  /\ UNCHANGED <<messageHandlers, requestValidators, responseInterceptors,
                 registered>>

\* the awaited handler of dispatch d fails with `error`
handlerRejects(d, error) ==
  /\ proc[d].pc = "handler"
  /\ proc' = [proc EXCEPT ![d] =
       catchError([Awaited(proc[d]) EXCEPT !.handlerResult = "failed",
                                  !.handlerFailure = error],
                  "HANDLER_ERROR", error,
                  "Error desconocido en el manejador.")]
  /\ UNCHANGED <<messageHandlers, requestValidators, responseInterceptors,
                 registered>>

\* an interceptor call whose result is awaited but not assigned
interceptorResolves_Discard(d, edit) ==
  /\ proc[d].pc = "interceptor"
  /\ LET f == Awaited(proc[d])
         i == responseInterceptors[f.iIdx]
         out == Edited(f.mcpResponse, i, edit)
     IN proc' = [proc EXCEPT ![d] =
          runInterceptors([f EXCEPT !.returned = Append(@, out)])]
  /\ UNCHANGED <<messageHandlers, requestValidators, responseInterceptors,
                 registered>>

\* an interceptor result kept in a slot that all dispatches share
interceptorResolves_Shared(d, edit) ==
  /\ proc[d].pc = "interceptor"
  /\ LET f == Awaited(proc[d])
         i == responseInterceptors[f.iIdx]
         out == Edited(f.mcpResponse, i, edit)
     IN proc' = [o \in DOMAIN proc |->
          IF o = d
            THEN runInterceptors([f EXCEPT !.mcpResponse = out,
                                           !.returned = Append(@, out)])
            ELSE IF proc[o].pc = "interceptor"
                   THEN [proc[o] EXCEPT !.mcpResponse = out]
                   ELSE proc[o]]
  /\ UNCHANGED <<messageHandlers, requestValidators, responseInterceptors,
                 registered>>

\* the awaited interceptor of dispatch d returns a response: the one it
\* was given, after the edit it chose to make
interceptorResolves(d, edit) ==
  /\ proc[d].pc = "interceptor"
  /\ LET f == Awaited(proc[d])
         i == responseInterceptors[f.iIdx]
         out == Edited(f.mcpResponse, i, edit)
     IN proc' = [proc EXCEPT ![d] =
          runInterceptors([f EXCEPT !.mcpResponse = out,
                                    !.returned = Append(@, out)])]
  /\ UNCHANGED <<messageHandlers, requestValidators, responseInterceptors,
                 registered>>

\* an interceptor failure that is logged inside the loop, which goes on
\* with the next entry
interceptorRejects_Resume(d, edit) ==
  /\ proc[d].pc = "interceptor"
  /\ LET f == Awaited(proc[d])
         i == responseInterceptors[f.iIdx]
     IN proc' = [proc EXCEPT ![d] =
          runInterceptors([f EXCEPT
            !.interceptorFailed = TRUE,
            !.mcpResponse = Edited(f.mcpResponse, i, edit)])]
  /\ UNCHANGED <<messageHandlers, requestValidators, responseInterceptors,
                 registered>>

\* the awaited interceptor of dispatch d fails, after making an edit in
\* place to the response object it was given; the catch block of step 4
\* logs the error and the object mcpResponse refers to is returned
interceptorRejects(d, edit) ==
  /\ proc[d].pc = "interceptor"
  /\ LET f == Awaited(proc[d])
         i == responseInterceptors[f.iIdx]
     IN proc' = [proc EXCEPT ![d] =
          Return([f EXCEPT !.interceptorFailed = TRUE],
                 Edited(f.mcpResponse, i, edit))]
  /\ UNCHANGED <<messageHandlers, requestValidators, responseInterceptors,
                 registered>>

Next ==
  \/ \E k \in TypeStrings, h \in HandlerIds : registerMessageHandler(k, h)
  \/ \E v \in ValidatorIds : addRequestValidator(v)
  \/ \E i \in InterceptorIds : addResponseInterceptor(i)
  \/ \E d \in Dispatches, m \in InboundMessages : processRequest(d, m)
  \/ \E d \in Dispatches, m \in InboundMessages : sendMessage(d, m)
  \/ \E d \in Dispatches : validatorResolves(d)
  \/ \E d \in Dispatches, e \in Failures : validatorRejects(d, e)
  \/ \E d \in Dispatches, reply \in BOOLEAN : handlerResolves(d, reply)
  \/ \E d \in Dispatches, e \in Failures : handlerRejects(d, e)
  \/ \E d \in Dispatches, e \in Edits : interceptorResolves(d, e)
  \/ \E d \in Dispatches, e \in Edits : interceptorRejects(d, e)

Spec == Init /\ [][Next]_vars

\* the plugin invocation dispatch d is suspended on settles and the
\* dispatcher's continuation runs
Completes(d) ==
  \/ validatorResolves(d)
  \/ \E e \in Failures : validatorRejects(d, e)
  \/ \E reply \in BOOLEAN : handlerResolves(d, reply)
  \/ \E e \in Failures : handlerRejects(d, e)
  \/ \E e \in Edits : interceptorResolves(d, e)
  \/ \E e \in Edits : interceptorRejects(d, e)

\* the dispatcher with plugins that all settle: no awaited invocation
\* stays pending forever
LiveSpec ==
  Init /\ [][Next]_vars /\ \A d \in Dispatches : WF_vars(Completes(d))

(* ---------------------------------------------------------------------- *)
(* Two processRequest calls in flight over a configuration that is set up  *)
(* beforehand and not touched while they run                               *)
(* ---------------------------------------------------------------------- *)
\* the two calls, each with its own locals
ConcurrentDispatches == {"d1", "d2"}

\* a dispatcher configured before the calls: one handler, registered under
\* 'a', and chains of no or one plugin
ConcurrentInit ==
  /\ messageHandlers =
       [k \in TypeStrings |-> IF k = "a" THEN "h1" ELSE NoHandler]
  /\ requestValidators \in {<<>>, <<"v1">>}
  /\ responseInterceptors \in {<<>>, <<"i1">>}
  /\ registered = 1
  /\ proc = [d \in ConcurrentDispatches |-> IdleFrame]

\* the synchronous runs of the two calls, interleaved at their awaits
ConcurrentNext ==
  \/ \E d \in ConcurrentDispatches, m \in InboundMessages : processRequest(d, m)
  \/ \E d \in ConcurrentDispatches, m \in InboundMessages : sendMessage(d, m)
  \/ \E d \in ConcurrentDispatches : validatorResolves(d)
  \/ \E d \in ConcurrentDispatches, e \in Failures : validatorRejects(d, e)
  \/ \E d \in ConcurrentDispatches, reply \in BOOLEAN : handlerResolves(d, reply)
  \/ \E d \in ConcurrentDispatches, e \in Failures : handlerRejects(d, e)
  \/ \E d \in ConcurrentDispatches, e \in Edits : interceptorResolves(d, e)
  \/ \E d \in ConcurrentDispatches, e \in Edits : interceptorRejects(d, e)

ConcurrentSpec == ConcurrentInit /\ [][ConcurrentNext]_vars

(* ---------------------------------------------------------------------- *)
(* Chains built from two distinct validators and two distinct             *)
(* interceptors, added in any order and any number of times, around one   *)
(* dispatch of one message                                                 *)
(* ---------------------------------------------------------------------- *)
\* two validator functions that can be told apart
ChainValidatorIds == {"v1", "v2"}

\* two interceptor functions that can be told apart
ChainInterceptorIds == {"i1", "i2"}

\* the message dispatched: one whose type has a handler
ChainMessages ==
  { m \in InboundMessages : m.id = "m1" /\ m.metadata.type = Str("a") }

\* the failure a plugin throws: an Error with a text
ChainFailures == { e \in Failures : e.message = Str("E1") }

ChainNext ==
  \/ registerMessageHandler("a", "h1")
  \/ \E v \in ChainValidatorIds : addRequestValidator(v)
  \/ \E i \in ChainInterceptorIds : addResponseInterceptor(i)
  \/ \E d \in Dispatches, m \in ChainMessages : processRequest(d, m)
  \/ \E d \in Dispatches : validatorResolves(d)
  \/ \E d \in Dispatches, e \in ChainFailures : validatorRejects(d, e)
  \/ \E d \in Dispatches, reply \in BOOLEAN : handlerResolves(d, reply)
  \/ \E d \in Dispatches, e \in ChainFailures : handlerRejects(d, e)
  \/ \E d \in Dispatches : interceptorResolves(d, "mark")
  \/ \E d \in Dispatches : interceptorRejects(d, "none")

ChainSpec == Init /\ [][ChainNext]_vars

(* ---------------------------------------------------------------------- *)
(* Properties                                                              *)
(* ---------------------------------------------------------------------- *)
\* the calls of one kind in a call log
CallsOf(f, kind) == SelectSeq(f.calls, LAMBDA c : c.kind = kind)

\* the processRequest call of dispatch d has returned a response
Returned(d) == proc[d].pc = "done" /\ proc[d].outcome = "returned"

\* C1: processRequest always completes by returning a Response; no fault
\* ever propagates out of it, whatever the plugins throw.
C1_NoFaultEscapes ==
  \A d \in Dispatches : proc[d].outcome # "thrown"

\* C2: in a dispatch in which a validator failed, no handler is invoked.
C2_FailedValidationSkipsHandler ==
  \A d \in Dispatches :
    proc[d].validatorFailed => CallsOf(proc[d], "handler") = <<>>

\* C2 witness: a validator failed, the dispatch is over, and a handler is
\* registered under the key of the request.
C2_Witness ==
  \E d \in Dispatches :
    /\ proc[d].validatorFailed
    /\ Returned(d)
    /\ messageHandlers[MessageTypeOf(proc[d].request)] # NoHandler

\* C3: validation is fail-fast: once a validator has failed, the failing
\* invocation stays the last invocation of the dispatch, and the Response
\* returned reports that failure.
C3_FailFast ==
  \A d \in Dispatches :
    proc[d].validatorFailed =>
      /\ proc[d].pc = "done"
      /\ Len(proc[d].calls) = proc[d].vIdx
      /\ \A n \in 1..Len(proc[d].calls) :
           proc[d].calls[n] = Call("validator", requestValidators[n], n)
      /\ Returned(d) =>
           /\ proc[d].mcpResponse.code = "VALIDATION_ERROR"
           /\ Truthy(proc[d].validatorFailure.message) =>
                proc[d].mcpResponse.message = proc[d].validatorFailure.message.v

\* C3 witness: the first validator failed while a second one was registered
\* after it, and a Response was returned.
C3_Witness ==
  \E d \in Dispatches :
    /\ proc[d].validatorFailed
    /\ Returned(d)
    /\ proc[d].vIdx = 1
    /\ Len(requestValidators) >= 2

\* C4: validators are invoked in the order in which they were added: the
\* n-th validator invocation of a dispatch is that of the n-th chain entry,
\* and while one is pending it is the last invocation made.
C4_ValidatorsInRegistrationOrder ==
  \A d \in Dispatches :
    LET vc == CallsOf(proc[d], "validator")
    IN /\ \A n \in 1..Len(vc) :
            vc[n] = Call("validator", requestValidators[n], n)
       /\ proc[d].pc = "validator" =>
            /\ proc[d].calls = vc
            /\ Len(vc) = proc[d].vIdx

\* C4 witness: two validators have been invoked in one dispatch.
C4_Witness ==
  \E d \in Dispatches : Len(CallsOf(proc[d], "validator")) >= 2

\* C5 as stated: when a validator fails with a failure that carries a
\* message, the Response has success=false, code VALIDATION_ERROR and that
\* message as error.message.
C5_ValidationErrorCarriesMessage ==
  \A d \in Dispatches :
    (proc[d].validatorFailed /\ proc[d].validatorFailure.message.t = "string") =>
      /\ Returned(d)
      /\ ~proc[d].mcpResponse.success
      /\ proc[d].mcpResponse.hasError
      /\ proc[d].mcpResponse.code = "VALIDATION_ERROR"
      /\ proc[d].mcpResponse.message = proc[d].validatorFailure.message.v

\* C5 amended: when a validator fails with a failure that carries a
\* non-empty message, the Response has success=false, code VALIDATION_ERROR
\* and that message as error.message.
C5_ValidationErrorCarriesNonEmptyMessage ==
  \A d \in Dispatches :
    (proc[d].validatorFailed /\ Truthy(proc[d].validatorFailure.message)) =>
      /\ Returned(d)
      /\ ~proc[d].mcpResponse.success
      /\ proc[d].mcpResponse.hasError
      /\ proc[d].mcpResponse.code = "VALIDATION_ERROR"
      /\ proc[d].mcpResponse.message = proc[d].validatorFailure.message.v

\* C5 witness: a validator failed with a non-empty message and the call
\* returned.
C5_Witness ==
  \E d \in Dispatches :
    /\ proc[d].validatorFailed
    /\ Truthy(proc[d].validatorFailure.message)
    /\ Returned(d)

StatedKey(m) ==
  IF m.metadata.present /\ m.metadata.type.t = "string"
    THEN m.metadata.type.v
    ELSE "default"

NonEmptyTypeOrDefault(m) ==
  IF ~m.metadata.present THEN "default"
  ELSE IF m.metadata.type.t = "undefined" THEN "default"
  ELSE IF m.metadata.type.v = "" THEN "default"
  ELSE m.metadata.type.v

C8_HandlerMessageWrapped ==
  \A d \in Dispatches :
    proc[d].handlerResult = "message" =>
      /\ proc[d].processedMessage = HandlerReply(proc[d].handler, proc[d].request)
      /\ proc[d].built.success
      /\ ~proc[d].built.hasError
      /\ proc[d].built.responseMessage = proc[d].processedMessage
      /\ proc[d].iIdx = 0 => (Returned(d) /\ proc[d].mcpResponse = proc[d].built)

\* C8 witness: validation passed, the handler replied, no interceptor was
\* registered and the call returned.
C8_Witness ==
  \E d \in Dispatches :
    /\ proc[d].handlerResult = "message"
    /\ proc[d].vIdx >= 1
    /\ proc[d].iIdx = 0
    /\ Returned(d)

\* C9: when the handler returns null, the response message is synthesized
\* with source "mcp_system" and metadata {originalMessageId: id of the
\* inbound message, status: "PROCESSED_NO_REPLY"}, and the Response has
\* success=true and no error.
C9_NoReplySynthesized ==
  \A d \in Dispatches :
    proc[d].handlerResult = "null" =>
      /\ proc[d].built.responseMessage.source = "mcp_system"
      /\ proc[d].built.responseMessage.metadata.present
      /\ proc[d].built.responseMessage.metadata.originalMessageId = proc[d].request.id
      /\ proc[d].built.responseMessage.metadata.status = "PROCESSED_NO_REPLY"
      /\ proc[d].built.success
      /\ ~proc[d].built.hasError
      /\ proc[d].iIdx = 0 => (Returned(d) /\ proc[d].mcpResponse = proc[d].built)

\* C9 witness: a handler returned null and the call returned.
C9_Witness ==
  \E d \in Dispatches :
    /\ proc[d].handlerResult = "null"
    /\ Returned(d)

\* C10 as stated: when the handler fails with a failure that carries a
\* message, the Response has success=false, code HANDLER_ERROR and that
\* message as error.message, for every message.
C10_HandlerErrorCarriesMessage ==
  \A d \in Dispatches :
    (proc[d].handlerResult = "failed" /\ proc[d].handlerFailure.message.t = "string") =>
      /\ Returned(d)
      /\ ~proc[d].mcpResponse.success
      /\ proc[d].mcpResponse.hasError
      /\ proc[d].mcpResponse.code = "HANDLER_ERROR"
      /\ proc[d].mcpResponse.message = proc[d].handlerFailure.message.v

\* C10 amended: when the handler fails with a failure that carries a
\* non-empty message, the Response has success=false, code HANDLER_ERROR
\* and that message as error.message.
C10_HandlerErrorCarriesNonEmptyMessage ==
  \A d \in Dispatches :
    (proc[d].handlerResult = "failed" /\ Truthy(proc[d].handlerFailure.message)) =>
      /\ Returned(d)
      /\ ~proc[d].mcpResponse.success
      /\ proc[d].mcpResponse.hasError
      /\ proc[d].mcpResponse.code = "HANDLER_ERROR"
      /\ proc[d].mcpResponse.message = proc[d].handlerFailure.message.v

\* C10 witness: a handler failed with a non-empty message and the call
\* returned.
C10_Witness ==
  \E d \in Dispatches :
    /\ proc[d].handlerResult = "failed"
    /\ Truthy(proc[d].handlerFailure.message)
    /\ Returned(d)

\* the interceptor invocations of a frame
InterceptorCalls(f) == CallsOf(f, "interceptor")

\* C11: on a successful dispatch the interceptors are invoked in the order
\* in which they were added: the n-th invocation is that of the n-th chain
\* entry, the first is given the handler-derived Response, each later one
\* the Response the previous one returned, and when none fails the Response
\* returned by processRequest is what the last one returned.
C11_InterceptorsChainInOrder ==
  \A d \in Dispatches :
    LET f == proc[d]
        ic == InterceptorCalls(f)
    IN /\ Len(ic) = Len(f.given)
       /\ \A n \in 1..Len(ic) :
            /\ ic[n] = Call("interceptor", responseInterceptors[n], n)
            /\ f.given[n] = IF n = 1 THEN f.built ELSE f.returned[n - 1]
       /\ Len(ic) > 0 => f.handlerResult \in {"message", "null"}
       /\ (Returned(d) /\ Len(ic) > 0 /\ ~f.interceptorFailed) =>
            /\ Len(f.returned) = Len(ic)
            /\ f.mcpResponse = f.returned[Len(ic)]

\* C11 witness: two interceptors ran in one dispatch, the first wrote to
\* the Response, the second was given that write, and the call returned
\* what the second returned.
C11_Witness ==
  \E d \in Dispatches :
    /\ Returned(d)
    /\ ~proc[d].interceptorFailed
    /\ Len(proc[d].given) = 2
    /\ proc[d].given[2].trail = <<"i1">>
    /\ proc[d].mcpResponse.trail = <<"i1", "i1">>

\* the Response as it stood before the latest interceptor of frame f ran:
\* what the last interceptor that completed returned, or the
\* handler-derived Response if none completed
BeforeFault(f) ==
  IF f.returned = <<>> THEN f.built ELSE f.returned[Len(f.returned)]

\* C12: if an interceptor fails, processRequest still returns, and the
\* Response returned is the Response as it stood before the failing
\* interceptor ran: same success flag, same content, no error attached.
C12_InterceptorFaultLeavesResponse ==
  \A d \in Dispatches :
    proc[d].interceptorFailed =>
      /\ Returned(d)
      /\ proc[d].mcpResponse = BeforeFault(proc[d])
      /\ ~proc[d].mcpResponse.hasError

\* C13: no interceptor is invoked in a dispatch that ends with
\* VALIDATION_ERROR or with HANDLER_NOT_FOUND, whatever interceptors are
\* registered.
C13_NoInterceptorOnEarlyFailure ==
  \A d \in Dispatches :
    /\ (proc[d].validatorFailed \/ proc[d].handler = NoHandler) =>
         InterceptorCalls(proc[d]) = <<>>
    /\ (Returned(d) /\ proc[d].mcpResponse.hasError
          /\ proc[d].mcpResponse.code \in {"VALIDATION_ERROR", "HANDLER_NOT_FOUND"}) =>
         InterceptorCalls(proc[d]) = <<>>

\* C13 witness: a dispatch ended with VALIDATION_ERROR while an interceptor
\* was registered.
C13_Witness ==
  \E d \in Dispatches :
    /\ Returned(d)
    /\ proc[d].mcpResponse.code = "VALIDATION_ERROR"
    /\ Len(responseInterceptors) >= 1

\* C14: no interceptor is invoked in a dispatch whose handler fails: the
\* HANDLER_ERROR Response is returned as built.
C14_NoInterceptorOnHandlerError ==
  \A d \in Dispatches :
    proc[d].handlerResult = "failed" =>
      /\ proc[d].pc = "done"
      /\ InterceptorCalls(proc[d]) = <<>>
      /\ Returned(d) =>
           /\ proc[d].mcpResponse.code = "HANDLER_ERROR"
           /\ proc[d].mcpResponse.trail = <<>>

\* C14 witness: a handler failed, a HANDLER_ERROR Response was returned,
\* and an interceptor was registered at that moment.
C14_Witness ==
  \E d \in Dispatches :
    /\ proc[d].handlerResult = "failed"
    /\ Returned(d)
    /\ proc[d].mcpResponse.code = "HANDLER_ERROR"
    /\ Len(responseInterceptors) >= 1

\* the error code a finished dispatch emitted, "" if it emitted none
EmittedCode(d) ==
  IF Returned(d) /\ proc[d].mcpResponse.hasError
    THEN proc[d].mcpResponse.code
    ELSE ""

\* C15: a finished dispatch emits one of exactly three error codes, each
\* tied to its stage: VALIDATION_ERROR iff a validator failed,
\* HANDLER_NOT_FOUND iff validation passed and no handler was registered
\* for the key, HANDLER_ERROR iff the invoked handler failed; an
\* interceptor fault produces no error code.
C15_ThreeCodesByStage ==
  \A d \in Dispatches :
    proc[d].pc = "done" =>
      /\ EmittedCode(d) \in {"", "VALIDATION_ERROR", "HANDLER_NOT_FOUND",
                             "HANDLER_ERROR"}
      /\ EmittedCode(d) = "VALIDATION_ERROR" <=> proc[d].validatorFailed
      /\ EmittedCode(d) = "HANDLER_NOT_FOUND" <=>
           (~proc[d].validatorFailed /\ proc[d].handler = NoHandler)
      /\ EmittedCode(d) = "HANDLER_ERROR" <=> proc[d].handlerResult = "failed"
      /\ proc[d].interceptorFailed => EmittedCode(d) = ""

\* success is false if and only if the error field is present
WellFlagged(resp) == (~resp.success) <=> resp.hasError

\* C16 as stated: every Response returned by processRequest has
\* success=false iff its error field is present, for any registered
\* validators, handlers and interceptors.
C16_ReturnedWellFlagged ==
  \A d \in Dispatches : Returned(d) => WellFlagged(proc[d].mcpResponse)

\* C16 amended: every Response the dispatcher builds itself (the error
\* Response of a failure path, the handler-derived Response that enters the
\* interceptor chain) has success=false iff its error field is present,
\* and so has the Response returned after interception whenever the
\* interceptors left its success and error fields as they were built.
C16_BuiltWellFlagged ==
  \A d \in Dispatches :
    /\ proc[d].handlerResult \in {"message", "null"} =>
         WellFlagged(proc[d].built)
    /\ (Returned(d) /\ InterceptorCalls(proc[d]) = <<>>) =>
         WellFlagged(proc[d].mcpResponse)
    /\ (Returned(d) /\ InterceptorCalls(proc[d]) # <<>>
          /\ proc[d].mcpResponse.success = proc[d].built.success
          /\ proc[d].mcpResponse.hasError = proc[d].built.hasError) =>
         WellFlagged(proc[d].mcpResponse)

\* C16 witness: an error Response was returned on a failure path while an
\* interceptor was registered.
C16_Witness ==
  \E d \in Dispatches :
    /\ Returned(d)
    /\ proc[d].mcpResponse.hasError
    /\ ~proc[d].mcpResponse.success
    /\ proc[d].handler = NoHandler
    /\ Len(responseInterceptors) >= 1

\* C17: every Response built by the dispatcher has a responseMessage, and
\* when the dispatcher synthesized that message itself (the no-reply notice,
\* the error message of a failure path) its conversationId is the
\* conversationId of the inbound message.
C17_SynthesizedKeepsConversation ==
  \A d \in Dispatches :
    Returned(d) =>
      /\ proc[d].mcpResponse.responseMessage # NoMessage
      /\ (proc[d].mcpResponse.hasError \/ proc[d].handlerResult = "null") =>
           proc[d].mcpResponse.responseMessage.conversationId =
             proc[d].request.conversationId

\* the frame as it would stand had the dispatch entered by processRequest
AsProcessRequest(f) ==
  IF f.entry = "sendMessage" THEN [f EXCEPT !.entry = "processRequest"] ELSE f

\* the frames one synchronous run of processRequest can lead to from frame
\* f under the current registry and chains, whatever the awaited plugin does
PipelineSteps(f) ==
  CASE f.pc = "idle" ->
         { runValidators([IdleFrame EXCEPT !.entry = "processRequest",
                                           !.request = m]) :
             m \in InboundMessages }
    [] f.pc = "validator" ->
         { runValidators(Awaited(f)) } \cup
         { catchError([Awaited(f) EXCEPT !.validatorFailed = TRUE,
                                !.validatorFailure = e],
                      "VALIDATION_ERROR", e,
                      "Error de validacion desconocido.") : e \in Failures }
    [] f.pc = "handler" ->
         { runInterceptors([Awaited(f) EXCEPT
             !.handlerResult = IF reply THEN "message" ELSE "null",
             !.processedMessage =
                 IF reply THEN HandlerReply(f.handler, f.request)
                          ELSE NoMessage,
             !.mcpResponse =
                 buildResponse(f, IF reply
                                    THEN HandlerReply(f.handler, f.request)
                                    ELSE NoMessage),
             !.built =
                 buildResponse(f, IF reply
                                    THEN HandlerReply(f.handler, f.request)
                                    ELSE NoMessage)]) : reply \in BOOLEAN } \cup
         { catchError([Awaited(f) EXCEPT !.handlerResult = "failed",
                                !.handlerFailure = e],
                      "HANDLER_ERROR", e,
                      "Error desconocido en el manejador.") : e \in Failures }
    [] f.pc = "interceptor" ->
         { runInterceptors([Awaited(f) EXCEPT
             !.mcpResponse =
                 Edited(f.mcpResponse, responseInterceptors[f.iIdx], e),
             !.returned =
                 Append(@, Edited(f.mcpResponse,
                                  responseInterceptors[f.iIdx], e))]) :
             e \in Edits } \cup
         { Return([Awaited(f) EXCEPT !.interceptorFailed = TRUE],
                  Edited(f.mcpResponse, responseInterceptors[f.iIdx], e)) :
             e \in Edits }
    [] OTHER -> {}

\* C18: a dispatch entered by sendMessage(m) runs the pipeline of
\* processRequest({message: m}): its first run and every later run is a
\* run processRequest makes from the same frame, so it invokes the same
\* validators, handler and interceptors in the same order and ends with
\* the same outcome, no stage bypassed or duplicated.
C18_SendMessageIsProcessRequest ==
  [][\A d \in Dispatches :
       (proc'[d] # proc[d] /\ proc'[d].entry = "sendMessage") =>
         AsProcessRequest(proc'[d]) \in PipelineSteps(AsProcessRequest(proc[d]))
    ]_vars

\* a dispatch entered by sendMessage went through a validator, a handler
\* and an interceptor and returned a Response
C18_Witness ==
  \E d \in Dispatches :
    /\ proc[d].entry = "sendMessage"
    /\ Returned(d)
    /\ CallsOf(proc[d], "validator") # <<>>
    /\ CallsOf(proc[d], "handler") # <<>>
    /\ CallsOf(proc[d], "interceptor") # <<>>

\* the keys of the registry that have a handler
BoundKeys == { k \in TypeStrings : messageHandlers[k] # NoHandler }

\* C19: the registry holds at most one handler per key, the one most
\* recently registered under it: a registerMessageHandler(k, h) call,
\* whether or not k already had a handler, leaves h under k and every other
\* key as it was; a dispatch that looks its key up afterwards gets the
\* handler the registry holds at that moment and invokes that one only.
C19_LastRegistrationWins ==
  [][/\ \A k \in TypeStrings, h \in HandlerIds :
          registerMessageHandler(k, h) =>
            /\ messageHandlers'[k] = h
            /\ \A other \in TypeStrings \ {k} :
                 messageHandlers'[other] = messageHandlers[other]
     /\ \A d \in Dispatches :
          (proc[d].messageType = "-" /\ proc'[d].messageType # "-") =>
            /\ proc'[d].handler = messageHandlers[proc'[d].messageType]
            /\ proc'[d].handler = messageHandlers'[proc'[d].messageType]
     /\ \A d \in Dispatches :
          CallsOf(proc'[d], "handler") \in
            { <<>>, <<Call("handler", proc'[d].handler, 0)>> }
    ]_vars

\* one key was registered twice, and a dispatch for that key has invoked
\* the handler the registry holds for it and returned
C19_Witness ==
  \E d \in Dispatches, k \in TypeStrings :
    /\ registered = 2
    /\ BoundKeys = {k}
    /\ Returned(d)
    /\ proc[d].messageType = k
    /\ CallsOf(proc[d], "handler") =
         <<Call("handler", messageHandlers[k], 0)>>

\* C20: with the registry and the chains fixed, every run of a dispatch
\* that interleaves with another one is a run the pipeline makes from that
\* dispatch's own frame, and it leaves the other dispatch's frame as it
\* was: each dispatch goes through the frames, and returns the Response,
\* of a dispatch running alone.
C20_DispatchesDoNotInterfere ==
  [][\A d \in ConcurrentDispatches :
       proc'[d] # proc[d] =>
         /\ AsProcessRequest(proc'[d]) \in
              PipelineSteps(AsProcessRequest(proc[d]))
         /\ \A o \in ConcurrentDispatches \ {d} : proc'[o] = proc[o]
    ]_vars

\* two dispatches of different messages are in flight at once, one
\* suspended on its handler and one on an interceptor
C20_Witness ==
  /\ DOMAIN proc = ConcurrentDispatches
  /\ proc["d1"].pc = "handler"
  /\ proc["d2"].pc = "interceptor"
  /\ proc["d1"].request # proc["d2"].request

\* the plugin invocation a step of dispatch d starts, as a set: empty when
\* the step starts none
Started(d) ==
  IF Len(proc'[d].calls) > Len(proc[d].calls)
    THEN { proc'[d].calls[n] : n \in (Len(proc[d].calls) + 1)..Len(proc'[d].calls) }
    ELSE {}

\* C21: whatever register and add calls interleave with a dispatch, each
\* plugin it starts is read from a fully applied registry or chain: a
\* validator or interceptor is the complete entry standing at the next
\* position of its chain at that moment, each position being taken once and
\* in order, and the handler is the one registered under the key of the
\* request at the moment of the lookup.
C21_ReadsAreWhole ==
  [][\A d \in Dispatches :
       /\ Len(proc'[d].calls) <= Len(proc[d].calls) + 1
       /\ \A c \in Started(d) :
            /\ c.kind = "validator" =>
                 /\ c.pos = Len(CallsOf(proc[d], "validator")) + 1
                 /\ c.pos <= Len(requestValidators)
                 /\ c.id = requestValidators[c.pos]
                 /\ c.id \in ValidatorIds
            /\ c.kind = "interceptor" =>
                 /\ c.pos = Len(CallsOf(proc[d], "interceptor")) + 1
                 /\ c.pos <= Len(responseInterceptors)
                 /\ c.id = responseInterceptors[c.pos]
                 /\ c.id \in InterceptorIds
            /\ c.kind = "handler" =>
                 /\ c.id = messageHandlers[MessageTypeOf(proc'[d].request)]
                 /\ c.id \in HandlerIds
    ]_vars

\* a dispatch is suspended on an interceptor after running a validator and
\* a handler, and the key of its request has been registered anew since it
\* looked its handler up
C21_Witness ==
  \E d \in Dispatches :
    /\ proc[d].pc = "interceptor"
    /\ CallsOf(proc[d], "validator") # <<>>
    /\ proc[d].handler \in HandlerIds
    /\ messageHandlers[proc[d].messageType] \in HandlerIds \ {proc[d].handler}

\* the number of plugin invocations of frame f that were started and have
\* not settled yet
InProgress(f) == Len(f.calls) - f.settled

\* C22: within a dispatch at most one plugin invocation is in progress at
\* any moment: one is in progress exactly while the dispatch is suspended
\* on a validator, the handler or an interceptor, it is the invocation
\* started last, and every invocation started before it has settled.
C22_OneInvocationAtATime ==
  \A d \in Dispatches :
    /\ InProgress(proc[d]) \in {0, 1}
    /\ InProgress(proc[d]) = 1 <=>
         proc[d].pc \in {"validator", "handler", "interceptor"}
    /\ InProgress(proc[d]) = 1 =>
         proc[d].calls[Len(proc[d].calls)].kind = proc[d].pc

\* a dispatch is suspended on an interceptor after its validators and its
\* handler were started and have settled, one after the other
C22_Witness ==
  \E d \in Dispatches :
    /\ proc[d].pc = "interceptor"
    /\ Len(CallsOf(proc[d], "validator")) >= 2
    /\ InProgress(proc[d]) = 1
    /\ proc[d].settled >= 3

\* the stages of a dispatch, in their order
StageOrder ==
  <<"Received", "Validating", "Routing", "Invoking", "Responding",
    "Intercepting", "Done">>

\* the place of a stage in that order
Rank(stage) == CHOOSE n \in 1..Len(StageOrder) : StageOrder[n] = stage

\* whether frame f has entered a stage, read off what the stage leaves in
\* the frame: step 1 is entered with the call, routing sets the key, the
\* invocation is logged, step 3 builds the Response, step 4 follows it
Has(f, stage) ==
  CASE stage = "Received" -> f.entry # "-"
    [] stage = "Validating" -> f.entry # "-"
    [] stage = "Routing" -> f.messageType # "-"
    [] stage = "Invoking" ->
         \E n \in DOMAIN f.calls : f.calls[n].kind = "handler"
    [] stage = "Responding" -> f.built # NoResponse
    [] stage = "Intercepting" ->
         \/ \E n \in DOMAIN f.calls : f.calls[n].kind = "interceptor"
         \/ (f.built # NoResponse /\ f.pc = "done")
    [] stage = "Done" -> f.pc = "done"

\* the stages frame f has entered so far
Entered(f) == { StageOrder[n] : n \in { m \in 1..Len(StageOrder) : Has(f, StageOrder[m]) } }

\* the place of the furthest stage before Done that frame f has entered
LastBeforeDone(f) ==
  IF Has(f, "Intercepting") THEN Rank("Intercepting")
  ELSE IF Has(f, "Responding") THEN Rank("Responding")
  ELSE IF Has(f, "Invoking") THEN Rank("Invoking")
  ELSE IF Has(f, "Routing") THEN Rank("Routing")
  ELSE IF Has(f, "Validating") THEN Rank("Validating")
  ELSE IF Has(f, "Received") THEN Rank("Received")
  ELSE 0

\* the stage in which a plugin of the given kind is invoked
StageOfKind(kind) ==
  CASE kind = "validator" -> "Validating"
    [] kind = "handler" -> "Invoking"
    [] kind = "interceptor" -> "Intercepting"

\* C23: a dispatch goes through Received, Validating, Routing, Invoking,
\* Responding, Intercepting, Done in that order: no step takes it out of a
\* stage it has entered or back to an earlier one, the plugins are invoked
\* in stage order, it enters every stage up to the one it is in unless it
\* jumped to Done, which it does only from Validating when a validator
\* failed, from Routing when no handler was found, or from Invoking when
\* the handler failed; and a dispatch that is Done does not move again.
C23_StagesInOrder ==
  [][\A d \in Dispatches :
       proc'[d] # proc[d] =>
         /\ proc[d].pc # "done"
         /\ \A n \in 1..Len(StageOrder) :
              Has(proc[d], StageOrder[n]) => Has(proc'[d], StageOrder[n])
         /\ \A n \in 1..(Len(proc'[d].calls) - 1) :
              Rank(StageOfKind(proc'[d].calls[n].kind))
                <= Rank(StageOfKind(proc'[d].calls[n + 1].kind))
         /\ \A n \in 1..LastBeforeDone(proc'[d]) :
              Has(proc'[d], StageOrder[n])
         /\ (Has(proc'[d], "Done") /\ ~Has(proc'[d], "Responding")) =>
              \/ /\ LastBeforeDone(proc'[d]) = Rank("Validating")
                 /\ proc'[d].validatorFailed
              \/ /\ LastBeforeDone(proc'[d]) = Rank("Routing")
                 /\ proc'[d].handler = NoHandler
              \/ /\ LastBeforeDone(proc'[d]) = Rank("Invoking")
                 /\ proc'[d].handlerResult = "failed"
    ]_vars

\* a dispatch came to Done through every stage, with a validator, the
\* handler and an interceptor invoked on the way
C23_Witness ==
  \E d \in Dispatches :
    /\ Entered(proc[d]) = { StageOrder[n] : n \in 1..Len(StageOrder) }
    /\ CallsOf(proc[d], "validator") # <<>>
    /\ CallsOf(proc[d], "interceptor") # <<>>

\* C24: the dispatcher never retries: in one dispatch no chain position is
\* invoked twice, the handler is invoked at most once, and it is invoked
\* exactly once when validation passed and the lookup found a handler,
\* also when that handler failed.
C24_NoRetry ==
  \A d \in Dispatches :
    LET f == proc[d]
        hc == CallsOf(f, "handler")
    IN /\ \A n \in 1..Len(f.calls), m \in 1..Len(f.calls) :
            (n # m) => f.calls[n] # f.calls[m]
       /\ Len(CallsOf(f, "validator")) <= Len(requestValidators)
       /\ Len(CallsOf(f, "interceptor")) <= Len(responseInterceptors)
       /\ Len(hc) <= 1
       /\ (f.messageType # "-" /\ f.handler # NoHandler) =>
            hc = <<Call("handler", f.handler, 0)>>
       /\ (f.pc = "done" /\ ~f.validatorFailed /\ f.handler # NoHandler) =>
            Len(hc) = 1
       /\ f.handlerResult = "failed" => (Len(hc) = 1 /\ f.pc = "done")

\* a dispatch passed two validators, its handler failed, and it returned
\* with the handler invoked once
C24_Witness ==
  \E d \in Dispatches :
    /\ Returned(d)
    /\ proc[d].handlerResult = "failed"
    /\ Len(CallsOf(proc[d], "validator")) >= 2
    /\ Len(CallsOf(proc[d], "handler")) = 1

\* frame f went through the whole pipeline as far as it has come: every
\* validator of the chain before routing, the handler of its key once, and
\* every interceptor before a Response that no fault cut short
FullPipeline(f) ==
  /\ f.pc = "done" => (f.validatorFailed \/ f.messageType # "-")
  /\ f.messageType # "-" =>
       /\ Len(CallsOf(f, "validator")) = Len(requestValidators)
       /\ f.messageType = MessageTypeOf(f.request)
       /\ f.handler = messageHandlers[f.messageType]
  /\ (f.messageType # "-" /\ f.handler # NoHandler) =>
       CallsOf(f, "handler") = <<Call("handler", f.handler, 0)>>
  /\ f.handlerResult \in {"message", "null"} =>
       f.built = buildResponse(f, f.processedMessage)
  /\ (f.pc = "done" /\ f.built # NoResponse /\ ~f.interceptorFailed) =>
       Len(CallsOf(f, "interceptor")) = Len(responseInterceptors)

\* C25: two dispatches whose messages carry the same id, one after the
\* other or interleaved, each run the full pipeline: each invokes the
\* validators, its handler once and the interceptors, and builds its
\* Response from its own request.
C25_NoDeduplication ==
  \A d \in ConcurrentDispatches, o \in ConcurrentDispatches :
    (d # o /\ proc[d].entry # "-" /\ proc[o].entry # "-"
       /\ proc[d].request.id = proc[o].request.id) =>
      FullPipeline(proc[d])

\* two dispatches of one and the same message both returned a success
\* Response, each after a handler invocation of its own
C25_Witness ==
  /\ DOMAIN proc = ConcurrentDispatches
  /\ proc["d1"].request = proc["d2"].request
  /\ \A d \in ConcurrentDispatches :
       /\ Returned(d)
       /\ proc[d].handlerResult = "message"
       /\ Len(CallsOf(proc[d], "handler")) = 1

\* sequence `after` is sequence `before` with exactly one entry added at
\* its end
Appended(before, after) ==
  /\ Len(after) = Len(before) + 1
  /\ SubSeq(after, 1, Len(before)) = before

\* C26: the chains are append-only and not deduplicated: an add call can
\* always be made, whether or not the plugin is in the chain already, and
\* it lengthens the chain by that one entry at the end; no step changes a
\* chain in any other way; and a dispatch invokes every position of the
\* chain it walks, so a plugin added twice is invoked twice.
C26_ChainsAppendOnly ==
  /\ [](\A v \in ChainValidatorIds :
          Len(requestValidators) < MaxValidators =>
            ENABLED (addRequestValidator(v)
                       /\ requestValidators' = Append(requestValidators, v)))
  /\ [](\A i \in ChainInterceptorIds :
          Len(responseInterceptors) < MaxInterceptors =>
            ENABLED (addResponseInterceptor(i)
                       /\ responseInterceptors' = Append(responseInterceptors, i)))
  /\ [][/\ requestValidators' # requestValidators =>
             Appended(requestValidators, requestValidators')
        /\ responseInterceptors' # responseInterceptors =>
             Appended(responseInterceptors, responseInterceptors')
        /\ \A d \in Dispatches :
             LET g == proc'[d]
                 vc == CallsOf(g, "validator")
                 ic == CallsOf(g, "interceptor")
             IN /\ \A n \in 1..Len(vc) :
                     vc[n] = Call("validator", requestValidators'[n], n)
                /\ \A n \in 1..Len(ic) :
                     ic[n] = Call("interceptor", responseInterceptors'[n], n)
                /\ (proc[d].messageType = "-" /\ g.messageType # "-") =>
                     Len(vc) = Len(requestValidators)
                /\ (proc[d].pc # "done" /\ g.pc = "done"
                      /\ g.built # NoResponse /\ ~g.interceptorFailed) =>
                     Len(ic) = Len(responseInterceptors)
       ]_vars

\* the same validator and the same interceptor were each added twice, and a
\* dispatch has invoked each of them twice and returned
C26_Witness ==
  \E d \in Dispatches :
    /\ requestValidators = <<"v2", "v2">>
    /\ responseInterceptors = <<"i2", "i2">>
    /\ Returned(d)
    /\ Len(CallsOf(proc[d], "validator")) = 2
    /\ proc[d].mcpResponse.trail = <<"i2", "i2">>

\* C27: when every invoked validator, handler and interceptor eventually
\* completes and the chains stop growing, every dispatch that was started
\* eventually is Done and has returned a Response.
C27_EveryDispatchReturns ==
  \A d \in Dispatches : (proc[d].entry # "-") ~> Returned(d)

\* the path a finished dispatch took
PathOf(f) ==
  CASE f.validatorFailed -> "VALIDATION_ERROR"
    [] f.handler = NoHandler -> "HANDLER_NOT_FOUND"
    [] f.handlerResult = "failed" -> "HANDLER_ERROR"
    [] f.handlerResult = "null" -> "no-reply"
    [] f.handlerResult = "message" -> "success"
    [] OTHER -> "-"

\* C28: on every path (success, no-reply, VALIDATION_ERROR,
\* HANDLER_NOT_FOUND, HANDLER_ERROR) the Response the dispatcher builds has
\* originalMessageId equal to the id of the inbound message: so has the
\* Response of step 3 and so has every Response returned.
C28_OriginalMessageId ==
  \A d \in Dispatches :
    /\ proc[d].built # NoResponse =>
         /\ PathOf(proc[d]) \in {"success", "no-reply"}
         /\ proc[d].built.originalMessageId = proc[d].request.id
    /\ Returned(d) =>
         /\ PathOf(proc[d]) # "-"
         /\ proc[d].mcpResponse.originalMessageId = proc[d].request.id

\* a success Response was returned whose reply has an id of its own
C28_Witness ==
  \E d \in Dispatches :
    /\ Returned(d)
    /\ PathOf(proc[d]) = "success"
    /\ proc[d].mcpResponse.responseMessage.id # proc[d].request.id
    /\ proc[d].mcpResponse.originalMessageId = proc[d].request.id

\* the keys whose registry entry a step changes
KeysChanged == { k \in TypeStrings : messageHandlers'[k] # messageHandlers[k] }

\* C29: processRequest and sendMessage never modify the registry or the
\* chains: a step of a dispatch, on any path, leaves all three as they
\* were; and a registerMessageHandler call changes the entry of its own key
\* at most, leaving the handler under every other key, both chains and
\* every dispatch in flight as they were.
C29_DispatchLeavesConfiguration ==
  [][/\ proc' # proc =>
          /\ messageHandlers' = messageHandlers
          /\ requestValidators' = requestValidators
          /\ responseInterceptors' = responseInterceptors
          /\ registered' = registered
     /\ registered' # registered =>
          /\ Cardinality(KeysChanged) <= 1
          /\ requestValidators' = requestValidators
          /\ responseInterceptors' = responseInterceptors
          /\ proc' = proc
     /\ \A k \in TypeStrings, h \in HandlerIds :
          (registered' # registered /\ messageHandlers'[k] = h
             /\ messageHandlers[k] # h) =>
            \A other \in TypeStrings \ {k} :
              messageHandlers'[other] = messageHandlers[other]
    ]_vars

\* a dispatch has run through validators, handler and interceptors and
\* returned, and the registry still holds its handler under its key while
\* another key holds another handler
C29_Witness ==
  \E d \in Dispatches :
    /\ Returned(d)
    /\ CallsOf(proc[d], "validator") # <<>>
    /\ CallsOf(proc[d], "interceptor") # <<>>
    /\ proc[d].handler \in HandlerIds
    /\ messageHandlers[proc[d].messageType] = proc[d].handler
    /\ \E other \in TypeStrings \ {proc[d].messageType} :
         messageHandlers[other] \in HandlerIds \ {proc[d].handler}

\* C30: once an interceptor has failed in a dispatch, the dispatch is over
\* and the failing invocation stays its last one: the interceptors that
\* completed before it and the failing one are all that ran, and no entry
\* standing after it in the chain is invoked.
C30_ChainAbandonedAtFault ==
  \A d \in Dispatches :
    proc[d].interceptorFailed =>
      LET f == proc[d]
          ic == InterceptorCalls(f)
      IN /\ f.pc = "done"
         /\ Len(ic) = Len(f.returned) + 1
         /\ Len(ic) = f.iIdx
         /\ f.calls[Len(f.calls)] =
              Call("interceptor", responseInterceptors[f.iIdx], f.iIdx)

\* the first interceptor failed while a second one stood after it in the
\* chain, and the dispatch returned
C30_Witness ==
  \E d \in Dispatches :
    /\ proc[d].interceptorFailed
    /\ Returned(d)
    /\ Len(InterceptorCalls(proc[d])) = 1
    /\ Len(responseInterceptors) >= 2

\* the step from f to g takes the dispatch out of its validator stage
LeavesValidation(f, g) ==
  f.pc \in {"idle", "validator"} /\ g.pc \notin {"idle", "validator"}

\* the step from f to g ends the interceptor stage of the dispatch
LeavesInterception(f, g) ==
  f.pc \in {"handler", "interceptor"} /\ g.pc = "done" /\ g.built # NoResponse

\* the number of invocations of the given kind in frame f
Invoked(f, kind) == Len(CallsOf(f, kind))

\* C31 as stated: a validator appended while a dispatch is suspended in
\* its validator chain is executed by it, so the dispatch leaves validation
\* with every entry then in the chain executed, and a validator appended
\* later is never executed by it; likewise for the interceptors.
C31_AppendedIsExecuted ==
  [][\A d \in Dispatches :
       proc'[d] # proc[d] =>
         /\ LeavesValidation(proc[d], proc'[d]) =>
              Invoked(proc'[d], "validator") = Len(requestValidators)
         /\ proc[d].pc \notin {"idle", "validator"} =>
              Invoked(proc'[d], "validator") = Invoked(proc[d], "validator")
         /\ LeavesInterception(proc[d], proc'[d]) =>
              Invoked(proc'[d], "interceptor") = Len(responseInterceptors)
    ]_vars

\* C31 amended: a validator appended while a dispatch is suspended in its
\* validator chain is executed by it, after the entries that preceded it,
\* unless one of those fails: the dispatch leaves validation either on a
\* failure or with every entry then in the chain executed in order; a
\* validator appended after that is never executed by it. Likewise an
\* interceptor appended before the interceptor stage has ended is executed
\* unless an interceptor before it fails, and a dispatch that has returned
\* executes nothing more.
C31_AppendedIsExecutedUnlessFault ==
  [][\A d \in Dispatches :
       proc'[d] # proc[d] =>
         /\ LeavesValidation(proc[d], proc'[d]) =>
              \/ proc'[d].validatorFailed
              \/ Invoked(proc'[d], "validator") = Len(requestValidators)
         /\ (proc[d].pc = "validator" /\ proc'[d].pc = "validator") =>
              /\ proc[d].vIdx < Len(requestValidators)
              /\ proc'[d].calls =
                   Append(proc[d].calls,
                          Call("validator", requestValidators[proc[d].vIdx + 1],
                               proc[d].vIdx + 1))
         /\ proc[d].pc \notin {"idle", "validator"} =>
              Invoked(proc'[d], "validator") = Invoked(proc[d], "validator")
         /\ LeavesInterception(proc[d], proc'[d]) =>
              \/ proc'[d].interceptorFailed
              \/ Invoked(proc'[d], "interceptor") = Len(responseInterceptors)
         /\ (proc[d].pc = "interceptor" /\ proc'[d].pc = "interceptor") =>
              /\ proc[d].iIdx < Len(responseInterceptors)
              /\ Invoked(proc'[d], "interceptor") = proc[d].iIdx + 1
         /\ proc[d].pc # "done"
    ]_vars

\* a dispatch has returned with no validator and no interceptor failed,
\* and each chain holds an entry the dispatch did not execute: one appended
\* after the dispatch had left that stage
C31_Witness ==
  \E d \in Dispatches :
    /\ Returned(d)
    /\ ~proc[d].validatorFailed
    /\ ~proc[d].interceptorFailed
    /\ Invoked(proc[d], "validator") >= 1
    /\ Invoked(proc[d], "validator") < Len(requestValidators)
    /\ Invoked(proc[d], "interceptor") >= 1
    /\ Invoked(proc[d], "interceptor") < Len(responseInterceptors)

\* frame f has looked its handler up
Resolved(f) == f.messageType # "-"

\* C32: a dispatch resolves its handler once, when its last validator has
\* completed: until then nothing is resolved or invoked, at that step it
\* takes the handler the registry holds for its key at that moment (so one
\* registered or replaced during validation), and from then on no step
\* changes the handler it resolved or invokes another one, whatever is
\* registered for the key meanwhile.
C32_HandlerResolvedOnce ==
  [][\A d \in Dispatches :
       proc'[d] # proc[d] =>
         /\ (~Resolved(proc[d]) /\ Resolved(proc'[d])) =>
              /\ LeavesValidation(proc[d], proc'[d])
              /\ ~proc'[d].validatorFailed
              /\ proc'[d].messageType = MessageTypeOf(proc'[d].request)
              /\ proc'[d].handler = messageHandlers[proc'[d].messageType]
              /\ CallsOf(proc'[d], "handler") =
                   IF proc'[d].handler = NoHandler THEN <<>>
                   ELSE <<Call("handler", proc'[d].handler, 0)>>
         /\ ~Resolved(proc'[d]) =>
              /\ proc'[d].handler = "-"
              /\ CallsOf(proc'[d], "handler") = <<>>
         /\ (LeavesValidation(proc[d], proc'[d]) /\ ~proc'[d].validatorFailed) =>
              Resolved(proc'[d])
         /\ Resolved(proc[d]) =>
              /\ proc'[d].messageType = proc[d].messageType
              /\ proc'[d].handler = proc[d].handler
              /\ CallsOf(proc'[d], "handler") = CallsOf(proc[d], "handler")
    ]_vars

\* a dispatch returned the reply of the handler it had resolved, invoked
\* once, although another handler has been registered under its key since
C32_Witness ==
  \E d \in Dispatches :
    /\ Returned(d)
    /\ proc[d].handlerResult = "message"
    /\ CallsOf(proc[d], "validator") # <<>>
    /\ CallsOf(proc[d], "handler") = <<Call("handler", proc[d].handler, 0)>>
    /\ proc[d].built.responseMessage.source = proc[d].handler
    /\ messageHandlers[proc[d].messageType] \in HandlerIds \ {proc[d].handler}

====
